---- MODULE Spec2Model ----
(***************************************************************************)
(* Token lifecycle (core/security.py, services/auth_service.py) and the    *)
(* RBAC decision engine (_old/policies.py, core/auth.py,                   *)
(* repositories/privilege_repository.py) of the CodeBase backend.          *)
(*                                                                         *)
(* Time is counted in ticks, TicksPerSecond ticks to the second: the code  *)
(* reads the clock as a float (time.time()) while a token's exp claim and  *)
(* a Redis TTL are whole seconds, so sub-second instants are part of the   *)
(* behaviour.                                                              *)
(* A JWT is modelled by its payload and by whether its signature verifies; *)
(* HS256 is deterministic, so two tokens with the same payload are the     *)
(* same string.                                                            *)
(* A privilege name is modelled by the list of its colon-separated         *)
(* segments ("sample:read" is <<"sample","read">>, "*" is <<"*">>), so     *)
(* name.split(":") is the list itself and name.endswith(":*") is "two or   *)
(* more segments, the last one *".                                         *)
(***************************************************************************)
EXTENDS Integers, Sequences, FiniteSets, TLC

VARIABLES
    now,              \* the wall clock, in ticks
    redisUp,          \* whether the Revocation Store (redis_client) answers
    blacklist,        \* Revocation Store: set of [key, expireAt] ("bl:<token>" with its TTL)
    issued,           \* tokens signed by this service so far
    users,            \* table user: id -> row
    roles,            \* table role: id -> row
    privileges,       \* table privilege: id -> row
    user_roles,       \* association table user_roles: set of <<user id, role id>>
    role_privileges,  \* association table role_privileges: set of <<role id, privilege id>>
    res,              \* outcome of the operation just performed (NoRes once the clock or the store moved on)
    revokedOk,        \* history: tokens whose revoke_token returned while they decoded, with exp ahead and the store up
    failed,           \* history: tokens a validation rejected as expired or revoked
    calls             \* requests in progress: the handler's position and its locals, per request

vars == <<now, redisUp, blacklist, issued, users, roles, privileges,
          user_roles, role_privileges, res, revokedOk, failed, calls>>

tokenVars == <<now, redisUp, blacklist, issued, revokedOk, failed>>
dbVars == <<users, roles, privileges, user_roles, role_privileges>>

-----------------------------------------------------------------------------
(* Bounds of the model                                                     *)

TicksPerSecond == 2
\* lifetimes in seconds, scaled down from JWT_EXPIRATION (30 min) and
\* JWT_REFRESH_EXPIRATION (7 days)
AccessLife == 1
RefreshLife == 2
MaxTime == 6
MaxIssued == 2
\* pairs of tokens issued in the runs of SpecRefresh
MaxGenerations == 3

UserIds == {1, 2}
RoleIds == {1, 2}
PrivIds == {1, 2}

-----------------------------------------------------------------------------
(* Identifiers and their string form                                       *)

IdStrings == <<"1", "2">>

\* str(user_id), as create_tokens passes it to the token constructors
Str(u) == IdStrings[u]

\* the comparison User.id == sub of the user lookups: the row whose id
\* prints as sub, or 0 when there is none
UserBySub(sub) ==
    IF \E u \in UserIds : Str(u) = sub /\ users[u].present
    THEN CHOOSE u \in UserIds : Str(u) = sub /\ users[u].present
    ELSE 0

NoSub == "<none>"
NoType == "<none>"

-----------------------------------------------------------------------------
(* Tokens                                                                  *)

NoToken == [sub |-> NoSub, exp |-> 0, typ |-> NoType, sig |-> FALSE]

\* the current time truncated to whole seconds, as jose reads it
\* (timegm(utcnow().utctimetuple())) and as it encodes a datetime exp
NowSeconds == now \div TicksPerSecond

\* mutant: the lifetime subtracted from the clock instead of added
create_access_token_backdated(subject, lifeSeconds) ==
    [sub |-> subject, exp |-> NowSeconds - lifeSeconds, typ |-> NoType, sig |-> TRUE]

\* core.security.create_access_token: {"exp": now + delta, "sub": str(subject)}
create_access_token(subject, lifeSeconds) ==
    [sub |-> subject, exp |-> NowSeconds + lifeSeconds, typ |-> NoType, sig |-> TRUE]

\* core.security.create_refresh_token: the same with "type": "refresh"
create_refresh_token(subject) ==
    [sub |-> subject, exp |-> NowSeconds + RefreshLife, typ |-> "refresh", sig |-> TRUE]

\* AuthService.create_tokens
create_tokens(u) ==
    [access_token |-> create_access_token(Str(u), AccessLife),
     refresh_token |-> create_refresh_token(Str(u))]

\* jwt.decode(token, key, algorithms): raises JWTError unless the signature
\* verifies and exp is not before the current whole second
JwtDecodes(t) == t.sig /\ ~(t.exp < NowSeconds)

\* a copy of a token whose signature does not verify (tampered or forged)
Forged(t) == [t EXCEPT !.sig = FALSE]

\* what a client can present: the tokens it was given and forgeries of them
Presentable == issued \cup {Forged(t) : t \in issued}

\* redis EXISTS bl:<token>: the key is there until its TTL has run out
KeyExists(t) == \E e \in blacklist : e.key = t /\ e.expireAt > now

\* mutant: the lookup answers "not revoked" whatever the store holds
is_token_revoked_never(t) ==
    IF ~redisUp THEN "error" ELSE "clear"

\* core.security.is_token_revoked: redis_client.exists(key) == 1; a
\* RedisError of an unreachable store is not caught
is_token_revoked(t) ==
    IF ~redisUp THEN "error" ELSE IF KeyExists(t) THEN "revoked" ELSE "clear"

\* int(exp - time.time()) of revoke_token: the remaining time, truncated
\* towards zero to whole seconds
RevokeTtl(t) ==
    LET d == t.exp * TicksPerSecond - now
    IN  IF d >= 0 THEN d \div TicksPerSecond ELSE 0 - ((0 - d) \div TicksPerSecond)

\* redis SETEX key ttl value: (re)writes the key, to expire ttl seconds on
SetEx(store, t, ttl) ==
    {e \in store : e.key # t} \cup {[key |-> t, expireAt |-> now + ttl * TicksPerSecond]}

\* core.security.revoke_token: the Revocation Store it leaves
revoke_token(store, t) ==
    IF ~JwtDecodes(t) THEN store            \* JWTError: nothing to do
    ELSE IF t.exp = 0 THEN store            \* if exp:
    ELSE IF RevokeTtl(t) > 0
         THEN IF redisUp THEN SetEx(store, t, RevokeTtl(t))
              ELSE store                    \* RedisError swallowed
         ELSE store

\* mutant: the write to the store is not guarded by except RedisError
revoke_token_raises_unguarded(t) ==
    IF ~JwtDecodes(t) THEN ""
    ELSE IF t.exp = 0 \/ RevokeTtl(t) <= 0 THEN ""
    ELSE IF ~redisUp THEN "RedisError"
    ELSE ""

\* core.security.revoke_token: the exception that reaches its caller, "" when
\* it returns
revoke_token_raises(t) ==
    IF ~JwtDecodes(t) THEN ""                 \* except JWTError
    ELSE IF t.exp = 0 \/ RevokeTtl(t) <= 0 THEN ""
    ELSE IF ~redisUp THEN ""                  \* except redis.exceptions.RedisError
    ELSE ""

-----------------------------------------------------------------------------
(* Outcomes                                                                *)

NoRes ==
    [op |-> "none", token |-> NoToken, status |-> 0, detail |-> "", user |-> 0,
     access |-> NoToken, refresh |-> NoToken,
     priv |-> <<>>, required |-> <<>>, granted |-> FALSE, missing |-> <<>>,
     entity |-> "", ids |-> <<>>]

TokenRes(op, t, status, detail, u) ==
    [NoRes EXCEPT !.op = op, !.token = t, !.status = status, !.detail = detail,
                  !.user = u]

\* core.security.get_current_user
security_get_current_user(t) ==
    IF is_token_revoked(t) = "error"
    THEN TokenRes("security.get_current_user", t, 500, "RedisError", 0)
    ELSE IF is_token_revoked(t) = "revoked"
    THEN TokenRes("security.get_current_user", t, 401, "Token has been revoked", 0)
    ELSE IF ~JwtDecodes(t) \/ t.sub = NoSub \/ t.sub = "" \/ t.typ = "refresh"
    THEN TokenRes("security.get_current_user", t, 401, "Could not validate credentials", 0)
    ELSE IF UserBySub(t.sub) = 0
    THEN TokenRes("security.get_current_user", t, 404, "User not found", 0)
    ELSE TokenRes("security.get_current_user", t, 200, "", UserBySub(t.sub))

\* AuthService.get_current_user
service_get_current_user(t) ==
    IF is_token_revoked(t) = "error"
    THEN TokenRes("AuthService.get_current_user", t, 500, "RedisError", 0)
    ELSE IF is_token_revoked(t) = "revoked"
    THEN TokenRes("AuthService.get_current_user", t, 401, "Token revoked", 0)
    ELSE IF ~JwtDecodes(t) \/ t.sub = NoSub
    THEN TokenRes("AuthService.get_current_user", t, 401, "Invalid token", 0)
    ELSE IF UserBySub(t.sub) = 0
    THEN TokenRes("AuthService.get_current_user", t, 404, "User not found", 0)
    ELSE TokenRes("AuthService.get_current_user", t, 200, "", UserBySub(t.sub))

\* mutant: the type claim is not looked at
refresh_token_anyType(t) ==
    IF is_token_revoked(t) = "error"
    THEN TokenRes("AuthService.refresh_token", t, 500, "RedisError", 0)
    ELSE IF is_token_revoked(t) = "revoked"
    THEN TokenRes("AuthService.refresh_token", t, 401, "Refresh token revoked", 0)
    ELSE IF ~JwtDecodes(t) \/ t.sub = NoSub
    THEN TokenRes("AuthService.refresh_token", t, 401, "Invalid refresh token", 0)
    ELSE IF UserBySub(t.sub) = 0 \/ ~users[UserBySub(t.sub)].is_active
    THEN TokenRes("AuthService.refresh_token", t, 401, "User not found or inactive", 0)
    ELSE [TokenRes("AuthService.refresh_token", t, 200, "", UserBySub(t.sub))
            EXCEPT !.access = create_tokens(UserBySub(t.sub)).access_token,
                   !.refresh = create_tokens(UserBySub(t.sub)).refresh_token]

\* mutant: is_active of the subject user is not looked at
refresh_token_inactiveOk(t) ==
    IF is_token_revoked(t) = "error"
    THEN TokenRes("AuthService.refresh_token", t, 500, "RedisError", 0)
    ELSE IF is_token_revoked(t) = "revoked"
    THEN TokenRes("AuthService.refresh_token", t, 401, "Refresh token revoked", 0)
    ELSE IF ~JwtDecodes(t) \/ t.typ # "refresh" \/ t.sub = NoSub
    THEN TokenRes("AuthService.refresh_token", t, 401, "Invalid refresh token", 0)
    ELSE IF UserBySub(t.sub) = 0
    THEN TokenRes("AuthService.refresh_token", t, 401, "User not found or inactive", 0)
    ELSE [TokenRes("AuthService.refresh_token", t, 200, "", UserBySub(t.sub))
            EXCEPT !.access = create_tokens(UserBySub(t.sub)).access_token,
                   !.refresh = create_tokens(UserBySub(t.sub)).refresh_token]

\* AuthService.refresh_token
refresh_token(t) ==
    IF is_token_revoked(t) = "error"
    THEN TokenRes("AuthService.refresh_token", t, 500, "RedisError", 0)
    ELSE IF is_token_revoked(t) = "revoked"
    THEN TokenRes("AuthService.refresh_token", t, 401, "Refresh token revoked", 0)
    ELSE IF ~JwtDecodes(t) \/ t.typ # "refresh" \/ t.sub = NoSub
    THEN TokenRes("AuthService.refresh_token", t, 401, "Invalid refresh token", 0)
    ELSE IF UserBySub(t.sub) = 0 \/ ~users[UserBySub(t.sub)].is_active
    THEN TokenRes("AuthService.refresh_token", t, 401, "User not found or inactive", 0)
    ELSE [TokenRes("AuthService.refresh_token", t, 200, "", UserBySub(t.sub))
            EXCEPT !.access = create_tokens(UserBySub(t.sub)).access_token,
                   !.refresh = create_tokens(UserBySub(t.sub)).refresh_token]

\* whether a 401 of a validation is the token's own end state: revoked, or
\* signed by this service and past its expiry
RejectedAsDead(r) ==
    /\ r.status = 401
    /\ \/ is_token_revoked(r.token) = "revoked"
       \/ r.token.sig /\ r.token.exp < NowSeconds

-----------------------------------------------------------------------------
(* Tables                                                                  *)

UserRow(present, active, super, deleted) ==
    [present |-> present, is_active |-> active, is_superuser |-> super, is_deleted |-> deleted]

RoleRow(deleted, active, admin) ==
    [is_deleted |-> deleted, is_active |-> active, is_admin |-> admin]

PrivilegeRow(name, deleted) == [name |-> name, is_deleted |-> deleted]

-----------------------------------------------------------------------------
(* Requests in progress                                                    *)

\* the requests that may be in progress at once
CallIds == {1, 2}

\* a request that is not in progress; otherwise pc is the handler's position,
\* arg its argument, k, created and pending the loop index, the list
\* created_privileges and the rows its session has flushed and not committed
NoCall == [pc |-> "idle", arg |-> "", k |-> 0, created |-> <<>>, pending |-> <<>>]
NoCalls == [c \in CallIds |-> NoCall]

-----------------------------------------------------------------------------
(* Token lifecycle: the operations                                         *)

\* the clock advances; Redis drops the keys whose TTL has run out
Tick ==
    /\ now < MaxTime
    /\ now' = now + 1
    /\ blacklist' = {e \in blacklist : e.expireAt > now + 1}
    /\ res' = NoRes
    /\ UNCHANGED <<redisUp, issued, revokedOk, failed>>
    /\ UNCHANGED dbVars
    /\ UNCHANGED calls

\* the Revocation Store becomes unreachable, or reachable again
StoreDown ==
    /\ redisUp
    /\ redisUp' = FALSE
    /\ res' = NoRes
    /\ UNCHANGED <<now, blacklist, issued, revokedOk, failed>>
    /\ UNCHANGED dbVars
    /\ UNCHANGED calls

StoreUp ==
    /\ ~redisUp
    /\ redisUp' = TRUE
    /\ res' = NoRes
    /\ UNCHANGED <<now, blacklist, issued, revokedOk, failed>>
    /\ UNCHANGED dbVars
    /\ UNCHANGED calls

\* POST /auth/login: AuthService.authenticate_user, then create_tokens
Login(u, passwordOk) ==
    /\ IF users[u].present /\ passwordOk
       THEN /\ issued' = issued \cup {create_tokens(u).access_token,
                                      create_tokens(u).refresh_token}
            /\ res' = [NoRes EXCEPT !.op = "login", !.status = 200, !.user = u,
                                    !.access = create_tokens(u).access_token,
                                    !.refresh = create_tokens(u).refresh_token]
       ELSE /\ issued' = issued
            /\ res' = [NoRes EXCEPT !.op = "login", !.status = 401,
                                    !.detail = "Incorrect email or password"]
    /\ UNCHANGED <<now, redisUp, blacklist, revokedOk, failed>>
    /\ UNCHANGED dbVars
    /\ UNCHANGED calls

\* core.security.revoke_token(token)
Revoke(t) ==
    /\ blacklist' = revoke_token(blacklist, t)
    /\ res' = TokenRes("revoke_token", t, IF revoke_token_raises(t) = "" THEN 200 ELSE 500,
                       revoke_token_raises(t), 0)
    /\ revokedOk' = IF JwtDecodes(t) /\ redisUp /\ now < t.exp * TicksPerSecond
                    THEN revokedOk \cup {t} ELSE revokedOk
    /\ UNCHANGED <<now, redisUp, issued, failed>>
    /\ UNCHANGED dbVars
    /\ UNCHANGED calls

\* core.security.get_current_user(token)
SecurityGetCurrentUser(t) ==
    /\ res' = security_get_current_user(t)
    /\ failed' = IF RejectedAsDead(security_get_current_user(t))
                 THEN failed \cup {t} ELSE failed
    /\ UNCHANGED <<now, redisUp, blacklist, issued, revokedOk>>
    /\ UNCHANGED dbVars
    /\ UNCHANGED calls

\* AuthService.get_current_user(token)
ServiceGetCurrentUser(t) ==
    /\ res' = service_get_current_user(t)
    /\ failed' = IF RejectedAsDead(service_get_current_user(t))
                 THEN failed \cup {t} ELSE failed
    /\ UNCHANGED <<now, redisUp, blacklist, issued, revokedOk>>
    /\ UNCHANGED dbVars
    /\ UNCHANGED calls

\* mutant: rotation on use, the exchanged token is revoked
RefreshToken_rotating(t) ==
    /\ res' = refresh_token(t)
    /\ issued' = IF refresh_token(t).status = 200
                 THEN issued \cup {refresh_token(t).access, refresh_token(t).refresh}
                 ELSE issued
    /\ blacklist' = IF refresh_token(t).status = 200 THEN revoke_token(blacklist, t)
                    ELSE blacklist
    /\ failed' = IF RejectedAsDead(refresh_token(t)) THEN failed \cup {t} ELSE failed
    /\ UNCHANGED <<now, redisUp, revokedOk>>
    /\ UNCHANGED dbVars
    /\ UNCHANGED calls

\* POST /auth/refresh: AuthService.refresh_token(token)
RefreshToken(t) ==
    /\ res' = refresh_token(t)
    /\ issued' = IF refresh_token(t).status = 200
                 THEN issued \cup {refresh_token(t).access, refresh_token(t).refresh}
                 ELSE issued
    /\ failed' = IF RejectedAsDead(refresh_token(t)) THEN failed \cup {t} ELSE failed
    /\ UNCHANGED <<now, redisUp, blacklist, revokedOk>>
    /\ UNCHANGED dbVars
    /\ UNCHANGED calls

\* DELETE /users/{id}: BaseRepository.delete removes the row (hard_delete)
\* or marks it deleted; a row already marked deleted is not found
DeleteUser(u, hard_delete) ==
    /\ users[u].present /\ ~users[u].is_deleted
    /\ IF hard_delete
       THEN /\ users' = [users EXCEPT ![u].present = FALSE]
            /\ user_roles' = {ur \in user_roles : ur[1] # u}
       ELSE /\ users' = [users EXCEPT ![u].is_deleted = TRUE]
            /\ user_roles' = user_roles
    /\ res' = [NoRes EXCEPT !.op = "delete_user", !.status = 200, !.user = u]
    /\ UNCHANGED <<roles, privileges, role_privileges>>
    /\ UNCHANGED tokenVars
    /\ UNCHANGED calls

Init ==
    /\ now = 0
    /\ redisUp = TRUE
    /\ blacklist = {}
    /\ issued = {}
    \* an active user and a deactivated one
    /\ users = [u \in UserIds |-> UserRow(TRUE, u = 1, FALSE, FALSE)]
    /\ roles = [r \in RoleIds |-> RoleRow(FALSE, TRUE, FALSE)]
    /\ privileges = [p \in PrivIds |-> PrivilegeRow(<<"sample", "read">>, FALSE)]
    /\ user_roles = {}
    /\ role_privileges = {}
    /\ res = NoRes
    /\ revokedOk = {}
    /\ failed = {}
    /\ calls = NoCalls

Next ==
    \/ Tick
    \/ StoreDown
    \/ StoreUp
    \/ \E u \in UserIds, ok \in BOOLEAN : Login(u, ok) /\ Cardinality(issued') <= MaxIssued
    \/ \E t \in Presentable : Revoke(t)
    \/ \E t \in Presentable : SecurityGetCurrentUser(t)
    \/ \E t \in Presentable : ServiceGetCurrentUser(t)
    \/ \E t \in Presentable : RefreshToken(t) /\ Cardinality(issued') <= MaxIssued
    \/ \E u \in UserIds, hard_delete \in BOOLEAN : DeleteUser(u, hard_delete)

Spec == Init /\ [][Next]_vars

\* the token lifecycle over several generations of tokens: one login, then
\* refreshes that issue new pairs, revocations of refresh tokens and
\* deletions, the store reachable
NextRefresh ==
    \/ Tick
    \/ \E u \in UserIds : issued = {} /\ Login(u, TRUE)
    \/ \E t \in issued : t.typ = "refresh" /\ Revoke(t)
    \/ \E t \in Presentable : RefreshToken(t) /\ Cardinality(issued') <= MaxGenerations * 2
    \/ \E u \in UserIds, hard_delete \in BOOLEAN : DeleteUser(u, hard_delete)

SpecRefresh == Init /\ [][NextRefresh]_vars

-----------------------------------------------------------------------------
(* RBAC decision engine                                                    *)

\* privilege names a caller may require, and names a privilege row may carry
RequiredNames == {<<"sample", "read">>, <<"sample", "delete">>,
                  <<"invoice", "read">>, <<"nonsense">>}
GrantNames == {<<"sample", "read">>, <<"sample", "*">>, <<"invoice", "*">>,
               <<"*">>, <<"*", "*">>}

\* the rows of a table in the order a query returns them
RoleOrder == [i \in 1..Cardinality(RoleIds) |-> i]
PrivOrder == [i \in 1..Cardinality(PrivIds) |-> i]

\* privilege.name.endswith(":*")
EndsWithColonStar(name) == Len(name) >= 2 /\ name[Len(name)] = "*"

\* mutant: the resource wildcard matches without comparing the prefixes
PrivilegeMatches_anyPrefix(name, required) ==
    \/ name = required
    \/ EndsWithColonStar(name)
    \/ name = <<"*">>
    \/ name = <<"*", "*">>

\* mutant: the global wildcard branch is missing
PrivilegeMatches_noGlobal(name, required) ==
    \/ name = required
    \/ EndsWithColonStar(name) /\ name[1] = required[1]

\* the three tests RBACPolicy.check_permission makes on one privilege of a
\* role: exact name, resource wildcard, global wildcard
PrivilegeMatches(name, required) ==
    \/ name = required
    \/ EndsWithColonStar(name) /\ name[1] = required[1]
    \/ name = <<"*">>
    \/ name = <<"*", "*">>

\* mutant: the privileges query answered from a result kept from the time
\* when every privilege was joined to the role
RolePrivilegesList_remembered(r) ==
    SelectSeq(PrivOrder, LAMBDA p : ~privileges[p].is_deleted)

\* the privileges query of check_permission: the non-deleted privileges
\* joined to the role
RolePrivilegesList(r) ==
    SelectSeq(PrivOrder, LAMBDA p : <<r, p>> \in role_privileges /\ ~privileges[p].is_deleted)

\* the inner loop: for privilege in role_privileges_list
RECURSIVE AnyPrivilegeMatches(_, _)
AnyPrivilegeMatches(list, required) ==
    IF list = <<>> THEN FALSE
    ELSE IF PrivilegeMatches(privileges[Head(list)].name, required) THEN TRUE
    ELSE AnyPrivilegeMatches(Tail(list), required)

\* mutant: the roles query without its is_deleted and is_active filters
UserRolesList_unfiltered(u) ==
    SelectSeq(RoleOrder, LAMBDA r : <<u, r>> \in user_roles)

\* the roles query of check_permission: the user's non-deleted, active roles
UserRolesList(u) ==
    SelectSeq(RoleOrder, LAMBDA r : /\ <<u, r>> \in user_roles
                                   /\ ~roles[r].is_deleted
                                   /\ roles[r].is_active)

\* mutant: the outer loop without its test of role.is_admin
RECURSIVE AnyRoleGrants_noBlanket(_, _)
AnyRoleGrants_noBlanket(list, required) ==
    IF list = <<>> THEN FALSE
    ELSE IF AnyPrivilegeMatches(RolePrivilegesList(Head(list)), required) THEN TRUE
    ELSE AnyRoleGrants_noBlanket(Tail(list), required)

\* the outer loop: for role in user_roles_list
RECURSIVE AnyRoleGrants(_, _)
AnyRoleGrants(list, required) ==
    IF list = <<>> THEN FALSE
    ELSE IF roles[Head(list)].is_admin THEN TRUE
    ELSE IF AnyPrivilegeMatches(RolePrivilegesList(Head(list)), required) THEN TRUE
    ELSE AnyRoleGrants(Tail(list), required)

\* the identity the caller passes to check_permission
CurrentUser(u) == [user_id |-> u, is_superadmin |-> users[u].is_superuser]

\* mutant: the super admin short cut is missing
check_permission_noSuper(required, current_user) ==
    LET u == current_user.user_id
    IN  IF ~users[u].present THEN FALSE
        ELSE IF users[u].is_deleted \/ ~users[u].is_active THEN FALSE
        ELSE AnyRoleGrants(UserRolesList(u), required)

\* mutant: the loop over the roles stops after the first role
check_permission_firstRole(required, current_user) ==
    LET u == current_user.user_id
    IN  IF current_user.is_superadmin THEN TRUE
        ELSE IF ~users[u].present THEN FALSE
        ELSE IF users[u].is_deleted \/ ~users[u].is_active THEN FALSE
        ELSE IF UserRolesList(u) = <<>> THEN FALSE
        ELSE AnyRoleGrants(<<Head(UserRolesList(u))>>, required)

\* RBACPolicy.check_permission(required_privilege, db, current_user)
check_permission(required, current_user) ==
    LET u == current_user.user_id
    IN  IF current_user.is_superadmin THEN TRUE
        ELSE IF ~users[u].present THEN FALSE
        ELSE IF users[u].is_deleted \/ ~users[u].is_active THEN FALSE
        ELSE IF UserRolesList(u) = <<>> THEN FALSE
        ELSE AnyRoleGrants(UserRolesList(u), required)

\* PrivilegeService.check_user_has_privilege(user_id, entity, action), which
\* core.auth.require_privileges calls: the resolution of section 4.2 for the
\* privilege entity:action
check_user_has_privilege(u, entity, action) ==
    check_permission(<<entity, action>>, [user_id |-> u, is_superadmin |-> FALSE])

\* PrivilegeRepository.get_user_privileges: the names of the non-deleted
\* privileges of the non-deleted roles of a non-deleted user
get_user_privileges(u) ==
    IF ~users[u].present \/ users[u].is_deleted THEN {}
    ELSE {privileges[p].name :
            p \in {q \in PrivIds :
                     /\ ~privileges[q].is_deleted
                     /\ \E r \in RoleIds : /\ <<u, r>> \in user_roles
                                           /\ ~roles[r].is_deleted
                                           /\ <<r, q>> \in role_privileges}}

\* mutant: nothing is missing as soon as one required privilege is held
MissingPrivileges_anyOf(u, required) ==
    IF \E i \in 1..Len(required) : check_user_has_privilege(u, required[i][1], required[i][2])
    THEN <<>>
    ELSE required

\* the list comprehension of require_privileges: the required privileges
\* the user lacks, in order
MissingPrivileges(u, required) ==
    SelectSeq(required, LAMBDA p : ~check_user_has_privilege(u, p[1], p[2]))

\* core.auth.require_privileges(*privileges), the dependency _dep, for the
\* authenticated user u
require_privileges(u, required) ==
    IF users[u].is_superuser
    THEN [NoRes EXCEPT !.op = "require_privileges", !.user = u, !.required = required,
                       !.status = 200, !.granted = TRUE]
    ELSE IF \E i \in 1..Len(required) : Len(required[i]) # 2
    \* check_user_has_privilege(id, *p.split(':')) with one or three arguments
    THEN [NoRes EXCEPT !.op = "require_privileges", !.user = u, !.required = required,
                       !.status = 500, !.detail = "TypeError"]
    ELSE IF MissingPrivileges(u, required) # <<>>
    THEN [NoRes EXCEPT !.op = "require_privileges", !.user = u, !.required = required,
                       !.status = 403, !.detail = "Missing privileges",
                       !.missing = MissingPrivileges(u, required)]
    ELSE [NoRes EXCEPT !.op = "require_privileges", !.user = u, !.required = required,
                       !.status = 200, !.granted = TRUE]

\* AuthMiddleware.check_permissions for request.state.user = u
check_permissions(u, required) ==
    IF users[u].is_superuser
    THEN [NoRes EXCEPT !.op = "check_permissions", !.user = u, !.required = required,
                       !.status = 200, !.granted = TRUE]
    ELSE IF \E i \in 1..Len(required) : required[i] \in get_user_privileges(u)
    THEN [NoRes EXCEPT !.op = "check_permissions", !.user = u, !.required = required,
                       !.status = 200, !.granted = TRUE]
    ELSE [NoRes EXCEPT !.op = "check_permissions", !.user = u, !.required = required,
                       !.status = 403, !.detail = "Not enough permissions"]

-----------------------------------------------------------------------------
(* RBAC decision engine: the checks, over a range of table contents        *)

\* the privilege lists a route may require
RequiredLists ==
    {<<>>,
     <<<<"sample", "read">>>>, <<<<"sample", "delete">>>>, <<<<"nonsense">>>>,
     <<<<"sample", "read">>, <<"sample", "delete">>>>,
     <<<<"sample", "delete">>, <<"invoice", "read">>>>,
     <<<<"sample", "read">>, <<"nonsense">>>>}

Flags == BOOLEAN \X BOOLEAN \X BOOLEAN

\* RBACPolicy.check_permission for the identity of user u
CheckPermission(u, p) ==
    /\ res' = [NoRes EXCEPT !.op = "check_permission", !.user = u, !.priv = p,
                            !.granted = check_permission(p, CurrentUser(u))]
    /\ UNCHANGED tokenVars
    /\ UNCHANGED dbVars
    /\ UNCHANGED calls

\* a route guarded by core.auth.require_privileges, reached by user u
RequirePrivileges(u, required) ==
    /\ users[u].present
    /\ res' = require_privileges(u, required)
    /\ UNCHANGED tokenVars
    /\ UNCHANGED dbVars
    /\ UNCHANGED calls

\* a route guarded by AuthMiddleware.check_permissions, reached by user u
CheckPermissions(u, required) ==
    /\ users[u].present
    /\ res' = check_permissions(u, required)
    /\ UNCHANGED tokenVars
    /\ UNCHANGED dbVars
    /\ UNCHANGED calls

InitRBAC ==
    /\ now = 0
    /\ redisUp = TRUE
    /\ blacklist = {}
    /\ issued = {}
    /\ revokedOk = {}
    /\ failed = {}
    /\ res = NoRes
    /\ users \in {[u \in UserIds |-> IF u = 1 THEN UserRow(TRUE, f[1], f[2], f[3])
                                     ELSE UserRow(TRUE, TRUE, FALSE, FALSE)] : f \in Flags}
    /\ roles \in {[r \in RoleIds |-> IF r = 1 THEN RoleRow(f[1], f[2], f[3])
                                     ELSE RoleRow(FALSE, TRUE, FALSE)] : f \in Flags}
    /\ privileges \in {[p \in PrivIds |-> IF p = 1 THEN PrivilegeRow(n, d)
                                          ELSE PrivilegeRow(<<"sample", "read">>, FALSE)] :
                         n \in GrantNames, d \in BOOLEAN}
    /\ user_roles \in {S \cup {<<2, 2>>} : S \in SUBSET {<<1, 1>>, <<1, 2>>}}
    /\ role_privileges \in {{<<1, 1>>, <<2, 2>>}, {<<1, 1>>, <<1, 2>>, <<2, 2>>}}
    /\ calls = NoCalls

NextRBAC ==
    \/ \E u \in UserIds, p \in RequiredNames : CheckPermission(u, p)
    \/ \E u \in UserIds, required \in RequiredLists : RequirePrivileges(u, required)
    \/ \E u \in UserIds, required \in RequiredLists : CheckPermissions(u, required)

SpecRBAC == InitRBAC /\ [][NextRBAC]_vars

-----------------------------------------------------------------------------
(* Administration of the Credential Store: assignments and deletions       *)

AdminRes(op, status, detail, u) ==
    [NoRes EXCEPT !.op = op, !.status = status, !.detail = detail, !.user = u]

\* BaseRepository.get on the user, role and privilege tables: the row, unless
\* it is missing or marked deleted
GetUser(u) == users[u].present /\ ~users[u].is_deleted
GetRole(r) == ~roles[r].is_deleted
GetPrivilege(p) == ~privileges[p].is_deleted

\* UserService.assign_role_to_user
AssignRoleToUser(u, r) ==
    /\ IF ~GetUser(u) \/ ~GetRole(r)
       THEN /\ user_roles' = user_roles
            /\ res' = AdminRes("assign_role_to_user", 500, "EntityNotFoundError", u)
       ELSE /\ user_roles' = user_roles \cup {<<u, r>>}
            /\ res' = AdminRes("assign_role_to_user", 200, "", u)
    /\ UNCHANGED <<users, roles, privileges, role_privileges>>
    /\ UNCHANGED tokenVars
    /\ UNCHANGED calls

\* UserService.remove_role_from_user
RemoveRoleFromUser(u, r) ==
    /\ IF ~GetUser(u) \/ ~GetRole(r)
       THEN /\ user_roles' = user_roles
            /\ res' = AdminRes("remove_role_from_user", 500, "EntityNotFoundError", u)
       ELSE IF <<u, r>> \notin user_roles
       THEN /\ user_roles' = user_roles
            /\ res' = AdminRes("remove_role_from_user", 500, "InvalidOperationError", u)
       ELSE /\ user_roles' = user_roles \ {<<u, r>>}
            /\ res' = AdminRes("remove_role_from_user", 200, "", u)
    /\ UNCHANGED <<users, roles, privileges, role_privileges>>
    /\ UNCHANGED tokenVars
    /\ UNCHANGED calls

\* PrivilegeService.assign_privilege_to_role
AssignPrivilegeToRole(p, r) ==
    /\ IF ~GetPrivilege(p)
       THEN /\ role_privileges' = role_privileges
            /\ res' = AdminRes("assign_privilege_to_role", 404, "Privilege not found", 0)
       ELSE IF ~GetRole(r)
       THEN /\ role_privileges' = role_privileges
            /\ res' = AdminRes("assign_privilege_to_role", 404, "Role not found", 0)
       ELSE /\ role_privileges' = role_privileges \cup {<<r, p>>}
            /\ res' = AdminRes("assign_privilege_to_role", 200, "", 0)
    /\ UNCHANGED <<users, roles, privileges, user_roles>>
    /\ UNCHANGED tokenVars
    /\ UNCHANGED calls

\* PrivilegeService.remove_privilege_from_role
RemovePrivilegeFromRole(p, r) ==
    /\ IF ~GetPrivilege(p)
       THEN /\ role_privileges' = role_privileges
            /\ res' = AdminRes("remove_privilege_from_role", 404, "Privilege not found", 0)
       ELSE IF ~GetRole(r)
       THEN /\ role_privileges' = role_privileges
            /\ res' = AdminRes("remove_privilege_from_role", 404, "Role not found", 0)
       ELSE /\ role_privileges' = role_privileges \ {<<r, p>>}
            /\ res' = AdminRes("remove_privilege_from_role", 200, "", 0)
    /\ UNCHANGED <<users, roles, privileges, user_roles>>
    /\ UNCHANGED tokenVars
    /\ UNCHANGED calls

\* DELETE /roles/{id}: BaseRepository.delete on the role table.  A hard
\* delete removes the row and, with it, its rows in both association
\* tables; the id is then found by no query, which the model records as
\* the deleted mark on a row nothing refers to.
DeleteRole(r, hard_delete) ==
    /\ IF ~GetRole(r)
       THEN /\ UNCHANGED <<roles, user_roles, role_privileges>>
            /\ res' = AdminRes("delete_role", 404, "Role not found for deletion.", 0)
       ELSE /\ roles' = [roles EXCEPT ![r].is_deleted = TRUE]
            /\ user_roles' = IF hard_delete THEN {ur \in user_roles : ur[2] # r}
                             ELSE user_roles
            /\ role_privileges' = IF hard_delete THEN {rp \in role_privileges : rp[1] # r}
                                  ELSE role_privileges
            /\ res' = AdminRes("delete_role", 200, "", 0)
    /\ UNCHANGED <<users, privileges>>
    /\ UNCHANGED tokenVars
    /\ UNCHANGED calls

\* BaseRepository.delete on the privilege table, likewise
DeletePrivilege(p, hard_delete) ==
    /\ IF ~GetPrivilege(p)
       THEN /\ UNCHANGED <<privileges, role_privileges>>
            /\ res' = AdminRes("delete_privilege", 404, "Privilege not found", 0)
       ELSE /\ privileges' = [privileges EXCEPT ![p].is_deleted = TRUE]
            /\ role_privileges' = IF hard_delete THEN {rp \in role_privileges : rp[2] # p}
                                  ELSE role_privileges
            /\ res' = AdminRes("delete_privilege", 200, "", 0)
    /\ UNCHANGED <<users, roles, user_roles>>
    /\ UNCHANGED tokenVars
    /\ UNCHANGED calls

\* the user whose assignments the administration changes
AdminUsers == {1}

InitAdmin ==
    /\ now = 0
    /\ redisUp = TRUE
    /\ blacklist = {}
    /\ issued = {}
    /\ revokedOk = {}
    /\ failed = {}
    /\ res = NoRes
    /\ users = [u \in UserIds |-> UserRow(TRUE, TRUE, FALSE, FALSE)]
    /\ roles \in {[r \in RoleIds |-> RoleRow(FALSE, TRUE, r = 1 /\ a)] : a \in BOOLEAN}
    /\ privileges = [p \in PrivIds |-> IF p = 1 THEN PrivilegeRow(<<"sample", "*">>, FALSE)
                                       ELSE PrivilegeRow(<<"sample", "read">>, FALSE)]
    /\ user_roles = {}
    /\ role_privileges = {}
    /\ calls = NoCalls

NextAdmin ==
    \/ \E u \in AdminUsers, r \in RoleIds : AssignRoleToUser(u, r)
    \/ \E u \in AdminUsers, r \in RoleIds : RemoveRoleFromUser(u, r)
    \/ \E p \in PrivIds, r \in RoleIds : AssignPrivilegeToRole(p, r)
    \/ \E p \in PrivIds, r \in RoleIds : RemovePrivilegeFromRole(p, r)
    \/ \E r \in RoleIds, hard_delete \in BOOLEAN : DeleteRole(r, hard_delete)
    \/ \E p \in PrivIds, hard_delete \in BOOLEAN : DeletePrivilege(p, hard_delete)
    \/ \E u \in AdminUsers, hard_delete \in BOOLEAN : DeleteUser(u, hard_delete)
    \/ \E u \in AdminUsers, p \in RequiredNames : CheckPermission(u, p)
    \/ \E u \in AdminUsers, required \in RequiredLists : RequirePrivileges(u, required)
    \/ \E u \in AdminUsers, required \in RequiredLists : CheckPermissions(u, required)

SpecAdmin == InitAdmin /\ [][NextAdmin]_vars

-----------------------------------------------------------------------------
(* The Authorization Gate: authentication, then the privilege check        *)

\* the dependency chain of a guarded route: core.auth.get_current_user
\* (AuthService.get_current_user on the bearer token), then the _dep of
\* core.auth.require_privileges for the user it returned
authorize(t, required) ==
    IF service_get_current_user(t).status # 200
    THEN [service_get_current_user(t) EXCEPT !.op = "authorize", !.required = required]
    ELSE [require_privileges(service_get_current_user(t).user, required)
            EXCEPT !.op = "authorize", !.token = t]

\* mutant: the gate revokes the token of a request it refuses as Forbidden
Authorize_revoking(t, required) ==
    /\ res' = authorize(t, required)
    /\ blacklist' = IF authorize(t, required).status = 403 THEN revoke_token(blacklist, t)
                    ELSE blacklist
    /\ UNCHANGED <<now, redisUp, issued, revokedOk, failed>>
    /\ UNCHANGED dbVars
    /\ UNCHANGED calls

\* a request with bearer token t to a route guarded by
\* require_privileges(required)
Authorize(t, required) ==
    /\ res' = authorize(t, required)
    /\ UNCHANGED <<now, redisUp, blacklist, issued, revokedOk, failed>>
    /\ UNCHANGED dbVars
    /\ UNCHANGED calls

InitGate ==
    /\ now = 0
    /\ redisUp = TRUE
    /\ blacklist = {}
    /\ issued = {}
    /\ revokedOk = {}
    /\ failed = {}
    /\ res = NoRes
    \* a viewer, and a second user who is a superuser or deactivated
    /\ users \in {[u \in UserIds |-> IF u = 1 THEN UserRow(TRUE, TRUE, FALSE, FALSE)
                                     ELSE UserRow(TRUE, super, super, FALSE)] :
                    super \in BOOLEAN}
    /\ roles = [r \in RoleIds |-> RoleRow(FALSE, TRUE, FALSE)]
    /\ privileges = [p \in PrivIds |-> IF p = 1 THEN PrivilegeRow(<<"sample", "*">>, FALSE)
                                       ELSE PrivilegeRow(<<"sample", "read">>, FALSE)]
    /\ user_roles = {<<1, 2>>, <<2, 1>>}
    /\ role_privileges = {<<1, 1>>, <<2, 2>>}
    /\ calls = NoCalls

NextGate ==
    \/ Tick
    \/ \E u \in UserIds : issued = {} /\ Login(u, TRUE)
    \/ \E t \in issued : Revoke(t)
    \/ \E t \in Presentable, required \in RequiredLists : Authorize(t, required)
    \/ \E u \in UserIds, hard_delete \in BOOLEAN : DeleteUser(u, hard_delete)

SpecGate == InitGate /\ [][NextGate]_vars

-----------------------------------------------------------------------------
(* The privilege table with its entity and action columns, and             *)
(* create_crud_privileges                                                  *)

\* entity names a caller may pass, and str.lower() on them
CrudEntities == {"widget", "Widget", "role"}
Lower(entity) == IF entity = "Widget" THEN "widget" ELSE entity

\* the keys of the dict actions, in the order it is iterated
CrudActions == <<"read", "create", "update", "delete">>

\* the values of the dict actions: f"Read {entity}" and so on
CrudDescription(action, entity) ==
    << [read |-> "Read", create |-> "Create", update |-> "Update",
        delete |-> "Delete"][action], entity >>

\* a row of the privilege table; its id is its position in the table
PrivilegeRecord(name, description, entity, action) ==
    [name |-> name, description |-> description, entity |-> entity,
     action |-> action, is_deleted |-> FALSE]

\* PrivilegeRepository.get_by_entity_and_action: the id of the first
\* non-deleted row with that entity and that action, 0 when there is none
get_by_entity_and_action(table, entity, action) ==
    LET found == {i \in DOMAIN table : /\ table[i].entity = entity
                                       /\ table[i].action = action
                                       /\ ~table[i].is_deleted}
    IN  IF found = {} THEN 0 ELSE CHOOSE i \in found : \A j \in found : i <= j

\* the unique index on privilege.name, which covers the rows marked deleted
NameTaken(table, name) == \E i \in DOMAIN table : table[i].name = name

\* the loop of PrivilegeRepository.create_crud_privileges from the k-th
\* action on: the table and the list created_privileges it ends with, or
\* the IntegrityError of the flush of a row whose name is taken
RECURSIVE CrudLoop(_, _, _, _)
CrudLoop(table, entity, k, created) ==
    IF k > Len(CrudActions) THEN [error |-> "", table |-> table, ids |-> created]
    ELSE IF get_by_entity_and_action(table, entity, CrudActions[k]) # 0
    THEN CrudLoop(table, entity, k + 1,
                  Append(created, get_by_entity_and_action(table, entity, CrudActions[k])))
    ELSE IF NameTaken(table, <<Lower(entity), CrudActions[k]>>)
    THEN [error |-> "IntegrityError", table |-> table, ids |-> created]
    ELSE CrudLoop(Append(table, PrivilegeRecord(<<Lower(entity), CrudActions[k]>>,
                                                CrudDescription(CrudActions[k], entity),
                                                entity, CrudActions[k])),
                  entity, k + 1, Append(created, Len(table) + 1))

\* create_crud_privileges, had it cleared the deleted mark of the entity's
\* rows before looking them up
create_crud_privileges_reviving(table, entity) ==
    LET revived == [i \in DOMAIN table |->
                      IF table[i].name[1] = Lower(entity)
                      THEN [table[i] EXCEPT !.is_deleted = FALSE] ELSE table[i]]
    IN  IF CrudLoop(revived, entity, 1, <<>>).error # ""
        THEN [status |-> 500, detail |-> CrudLoop(revived, entity, 1, <<>>).error,
              table |-> table, ids |-> <<>>]
        ELSE [status |-> 200, detail |-> "",
              table |-> CrudLoop(revived, entity, 1, <<>>).table,
              ids |-> CrudLoop(revived, entity, 1, <<>>).ids]

\* PrivilegeService.create_crud_privileges(entity): the outcome, the table
\* it leaves (the session is closed without commit when the repository
\* raised) and the ids of the privileges it returns.  The repository's
\* coroutine is taken as run to its end, as for every repository method here.
create_crud_privileges(table, entity) ==
    IF CrudLoop(table, entity, 1, <<>>).error # ""
    THEN [status |-> 500, detail |-> CrudLoop(table, entity, 1, <<>>).error,
          table |-> table, ids |-> <<>>]
    ELSE [status |-> 200, detail |-> "",
          table |-> CrudLoop(table, entity, 1, <<>>).table,
          ids |-> CrudLoop(table, entity, 1, <<>>).ids]

\* POST /privileges/entity/{entity}/crud
CreateCrudPrivileges(entity) ==
    /\ privileges' = create_crud_privileges(privileges, entity).table
    /\ res' = [NoRes EXCEPT !.op = "create_crud_privileges",
                            !.status = create_crud_privileges(privileges, entity).status,
                            !.detail = create_crud_privileges(privileges, entity).detail,
                            !.entity = entity,
                            !.ids = create_crud_privileges(privileges, entity).ids]
    /\ UNCHANGED <<users, roles, user_roles, role_privileges>>
    /\ UNCHANGED tokenVars
    /\ UNCHANGED calls

\* the bodies POST /privileges is called with here
CreateInputs ==
    { [name |-> <<"widget", "read">>, description |-> <<>>,
       entity |-> "widget", action |-> "read"],
      [name |-> <<"role", "read">>, description |-> <<>>,
       entity |-> "roles", action |-> "read"] }

\* PrivilegeService.create_privilege(data): BaseRepository.create adds the row
\* and flushes, outside the try block of the service
CreatePrivilege(data) ==
    /\ IF NameTaken(privileges, data.name)
       THEN /\ privileges' = privileges
            /\ res' = AdminRes("create_privilege", 500, "IntegrityError", 0)
       ELSE /\ privileges' = Append(privileges,
                                    PrivilegeRecord(data.name, data.description,
                                                    data.entity, data.action))
            /\ res' = [AdminRes("create_privilege", 201, "", 0)
                         EXCEPT !.ids = <<Len(privileges) + 1>>]
    /\ UNCHANGED <<users, roles, user_roles, role_privileges>>
    /\ UNCHANGED tokenVars
    /\ UNCHANGED calls

\* the privileges and the role of the assignments made beside the calls
CrudAssignable == {1}

InitCrud ==
    /\ now = 0
    /\ redisUp = TRUE
    /\ blacklist = {}
    /\ issued = {}
    /\ revokedOk = {}
    /\ failed = {}
    /\ res = NoRes
    /\ users = [u \in UserIds |-> UserRow(TRUE, TRUE, u = 1, FALSE)]
    /\ roles = [r \in RoleIds |-> RoleRow(FALSE, TRUE, FALSE)]
    /\ privileges = <<>>
    /\ user_roles = {}
    /\ role_privileges = {}
    /\ calls = NoCalls

NextCrud ==
    \/ \E entity \in CrudEntities : CreateCrudPrivileges(entity)
    \/ \E data \in CreateInputs : CreatePrivilege(data)
    \/ \E p \in DOMAIN privileges : DeletePrivilege(p, FALSE)
    \/ \E p \in DOMAIN privileges \cap CrudAssignable : AssignPrivilegeToRole(p, 1)

SpecCrud == InitCrud /\ [][NextCrud]_vars

-----------------------------------------------------------------------------
(* POST /auth/bootstrap, two requests at a time                            *)

\* the e-mail addresses of the requests; a user's id stands for its address
BootstrapEmails == UserIds

\* bootstrap, up to the query for a superuser: db.query(User).filter(
\* User.is_superuser == True).first(), which reads deleted rows too
BootstrapCheck(c, email) ==
    /\ calls[c].pc = "idle"
    /\ IF \E u \in UserIds : users[u].present /\ users[u].is_superuser
       THEN /\ res' = AdminRes("bootstrap", 400, "Platform already set up", 0)
            /\ calls' = calls
       ELSE /\ res' = NoRes
            /\ calls' = [calls EXCEPT ![c] = [NoCall EXCEPT !.pc = "create_user",
                                                            !.arg = email]]
    /\ UNCHANGED dbVars
    /\ UNCHANGED tokenVars

\* bootstrap, from auth_service.create_user on: the insert and its commit,
\* refused by the unique index on user.email
BootstrapCreate(c) ==
    /\ calls[c].pc = "create_user"
    /\ IF users[calls[c].arg].present
       THEN /\ users' = users
            /\ res' = AdminRes("bootstrap", 400, "Email already registered", 0)
       ELSE /\ users' = [users EXCEPT ![calls[c].arg] = UserRow(TRUE, TRUE, TRUE, FALSE)]
            /\ res' = AdminRes("bootstrap", 201, "", calls[c].arg)
    /\ calls' = [calls EXCEPT ![c] = NoCall]
    /\ UNCHANGED <<roles, privileges, user_roles, role_privileges>>
    /\ UNCHANGED tokenVars

InitBootstrap ==
    /\ now = 0
    /\ redisUp = TRUE
    /\ blacklist = {}
    /\ issued = {}
    /\ revokedOk = {}
    /\ failed = {}
    /\ res = NoRes
    /\ users = [u \in UserIds |-> UserRow(FALSE, FALSE, FALSE, FALSE)]
    /\ roles = [r \in RoleIds |-> RoleRow(FALSE, TRUE, FALSE)]
    /\ privileges = [p \in PrivIds |-> PrivilegeRow(<<"sample", "read">>, FALSE)]
    /\ user_roles = {}
    /\ role_privileges = {}
    /\ calls = NoCalls

NextBootstrap ==
    \/ \E c \in CallIds, email \in BootstrapEmails : BootstrapCheck(c, email)
    \/ \E c \in CallIds : BootstrapCreate(c)
    \/ \E u \in UserIds, hard_delete \in BOOLEAN : DeleteUser(u, hard_delete)

SpecBootstrap == InitBootstrap /\ [][NextBootstrap]_vars

-----------------------------------------------------------------------------
(* revoke_token and logout, step by step, against a store that may not     *)
(* answer                                                                  *)

\* a request enters core.security.revoke_token(t), or AuthService.logout
\* (tokens = <<access, refresh>>), which calls it for each token in turn
RevokeCall(c, tokens) ==
    /\ calls[c].pc = "idle"
    /\ calls' = [calls EXCEPT ![c] = [NoCall EXCEPT !.pc = "revoke_token",
                                                    !.pending = tokens]]
    /\ res' = NoRes
    /\ UNCHANGED tokenVars
    /\ UNCHANGED dbVars

\* revoke_token up to redis_client.setex: a token that does not decode or
\* has no time left is done with; otherwise the command is sent, with the
\* ttl computed now.  With no token left the request returns.
RevokeStep(c) ==
    /\ calls[c].pc = "revoke_token"
    /\ IF calls[c].pending = <<>>
       THEN /\ calls' = [calls EXCEPT ![c] = NoCall]
            /\ res' = [NoRes EXCEPT !.op = "revoke_token returned", !.status = 200]
       ELSE IF \/ ~JwtDecodes(Head(calls[c].pending))
               \/ Head(calls[c].pending).exp = 0
               \/ RevokeTtl(Head(calls[c].pending)) <= 0
       THEN /\ calls' = [calls EXCEPT ![c].pending = Tail(@)]
            /\ res' = NoRes
       ELSE /\ calls' = [calls EXCEPT ![c].pc = "setex",
                                      ![c].k = RevokeTtl(Head(calls[c].pending))]
            /\ res' = NoRes
    /\ UNCHANGED tokenVars
    /\ UNCHANGED dbVars

\* the store executes the command and answers: setex returns
StoreAnswers(c) ==
    /\ calls[c].pc = "setex"
    /\ redisUp
    /\ blacklist' = SetEx(blacklist, Head(calls[c].pending), calls[c].k)
    /\ revokedOk' = IF now < Head(calls[c].pending).exp * TicksPerSecond
                    THEN revokedOk \cup {Head(calls[c].pending)} ELSE revokedOk
    /\ calls' = [calls EXCEPT ![c].pc = "revoke_token", ![c].k = 0,
                              ![c].pending = Tail(@)]
    /\ res' = NoRes
    /\ UNCHANGED <<now, redisUp, issued, failed>>
    /\ UNCHANGED dbVars

\* the connection is refused or reset: setex raises RedisError, which
\* revoke_token catches
StoreRefuses(c) ==
    /\ calls[c].pc = "setex"
    /\ ~redisUp
    /\ calls' = [calls EXCEPT ![c].pc = "revoke_token", ![c].k = 0,
                              ![c].pending = Tail(@)]
    /\ res' = NoRes
    /\ UNCHANGED tokenVars
    /\ UNCHANGED dbVars

\* the tokens a client sends to logout: its access and its refresh token
TokenPairs ==
    {<<a, r>> : a \in {t \in issued : t.typ # "refresh"},
                r \in {t \in issued : t.typ = "refresh"}}

NextRevoke ==
    \/ Tick
    \/ StoreDown
    \/ StoreUp
    \/ \E u \in UserIds : issued = {} /\ Login(u, TRUE)
    \/ \E c \in CallIds, t \in issued : RevokeCall(c, <<t>>)
    \/ \E c \in CallIds, pair \in TokenPairs : RevokeCall(c, pair)
    \/ \E c \in CallIds : RevokeStep(c)
    \/ \E c \in CallIds : StoreAnswers(c)
    \/ \E c \in CallIds : StoreRefuses(c)

\* the handler's own steps are taken whenever they can be; when, and
\* whether, the store answers is the store's affair
SpecRevoke ==
    Init /\ [][NextRevoke]_vars /\ \A c \in CallIds : WF_vars(RevokeStep(c))

-----------------------------------------------------------------------------
(* create_crud_privileges, two requests at a time, each in its own         *)
(* database transaction                                                    *)

\* the entity names of the concurrent requests
RaceEntities == {"widget", "role"}

\* the request goes on to the next key of actions, or to the commit
CrudAdvance(call, created) ==
    [call EXCEPT !.created = created,
                 !.k = call.k + 1,
                 !.pc = IF call.k = Len(CrudActions) THEN "commit" ELSE "lookup"]

\* the rows another transaction has flushed and not yet committed hold
\* their names in the unique index: an insert of such a name waits
NameHeldElsewhere(c, name) ==
    \E d \in CallIds \ {c} : NameTaken(calls[d].pending, name)

\* POST /privileges/entity/{entity}/crud arrives
CrudBegin(c, entity) ==
    /\ calls[c].pc = "idle"
    /\ calls' = [calls EXCEPT ![c] = [NoCall EXCEPT !.pc = "lookup", !.arg = entity,
                                                    !.k = 1]]
    /\ res' = NoRes
    /\ UNCHANGED tokenVars
    /\ UNCHANGED dbVars

\* privilege = await self.get_by_entity_and_action(entity, action), which
\* reads the committed rows
CrudLookup(c) ==
    /\ calls[c].pc = "lookup"
    /\ calls' = [calls EXCEPT ![c] =
          IF get_by_entity_and_action(privileges, calls[c].arg, CrudActions[calls[c].k]) # 0
          THEN CrudAdvance(calls[c],
                   Append(calls[c].created,
                          get_by_entity_and_action(privileges, calls[c].arg,
                                                   CrudActions[calls[c].k])))
          ELSE [calls[c] EXCEPT !.pc = "insert"]]
    /\ res' = NoRes
    /\ UNCHANGED tokenVars
    /\ UNCHANGED dbVars

\* self.db.add(new_privilege); await self.db.flush(): the row enters the
\* transaction, or the unique index on name raises IntegrityError, which
\* nothing catches: the request fails and its transaction is dropped.
\* A row flushed and not committed is entered in created as the negative of
\* its position in pending.
CrudInsert(c) ==
    /\ calls[c].pc = "insert"
    /\ ~NameHeldElsewhere(c, <<Lower(calls[c].arg), CrudActions[calls[c].k]>>)
    /\ IF NameTaken(privileges, <<Lower(calls[c].arg), CrudActions[calls[c].k]>>)
       THEN /\ calls' = [calls EXCEPT ![c] = NoCall]
            /\ res' = [NoRes EXCEPT !.op = "create_crud_privileges", !.status = 500,
                                    !.detail = "IntegrityError",
                                    !.entity = calls[c].arg]
       ELSE /\ calls' = [calls EXCEPT ![c] =
                  CrudAdvance([calls[c] EXCEPT !.pending =
                                  Append(@, PrivilegeRecord(
                                      <<Lower(calls[c].arg), CrudActions[calls[c].k]>>,
                                      CrudDescription(CrudActions[calls[c].k], calls[c].arg),
                                      calls[c].arg, CrudActions[calls[c].k]))],
                              Append(calls[c].created, 0 - (Len(calls[c].pending) + 1)))]
            /\ res' = NoRes
    /\ UNCHANGED tokenVars
    /\ UNCHANGED dbVars

\* self.db.commit() of PrivilegeService.create_crud_privileges: the rows of
\* the transaction become visible, and the privileges are returned
CrudCommit(c) ==
    /\ calls[c].pc = "commit"
    /\ privileges' = privileges \o calls[c].pending
    /\ res' = [NoRes EXCEPT !.op = "create_crud_privileges", !.status = 200,
                            !.entity = calls[c].arg,
                            !.ids = [i \in DOMAIN calls[c].created |->
                                        IF calls[c].created[i] > 0 THEN calls[c].created[i]
                                        ELSE Len(privileges) - calls[c].created[i]]]
    /\ calls' = [calls EXCEPT ![c] = NoCall]
    /\ UNCHANGED <<users, roles, user_roles, role_privileges>>
    /\ UNCHANGED tokenVars

NextCrudRace ==
    \/ \E c \in CallIds, entity \in RaceEntities : CrudBegin(c, entity)
    \/ \E c \in CallIds : CrudLookup(c)
    \/ \E c \in CallIds : CrudInsert(c)
    \/ \E c \in CallIds : CrudCommit(c)

SpecCrudRace == InitCrud /\ [][NextCrudRace]_vars

-----------------------------------------------------------------------------
(* Claims about the token lifecycle                                        *)

ValidateOps == {"security.get_current_user", "AuthService.get_current_user",
                "AuthService.refresh_token"}

IssueOps == {"login", "AuthService.refresh_token"}

\* C1: once revoke(token) has returned for a token that decoded, with exp
\* still ahead and the Revocation Store reachable, every later validate of
\* that token before exp (the store reachable) fails with 401.
C1_RevokedStaysRejected ==
    (/\ res.op \in ValidateOps
     /\ res.token \in revokedOk
     /\ redisUp
     /\ now < res.token.exp * TicksPerSecond)
    => res.status = 401

C3_DeadTokensStayDead ==
    (res.op \in ValidateOps /\ res.token \in failed) => res.status # 200

\* C4: every Revocation Store entry lives exactly until its token's exp
\* (never gone earlier, never kept later), and a revoke with exp - now <= 0
\* writes none.
C4_EntryLivesUntilExp ==
    /\ \A e \in blacklist : e.expireAt = e.key.exp * TicksPerSecond
    /\ (res.op = "revoke_token" /\ res.token.exp * TicksPerSecond - now <= 0)
           => ~KeyExists(res.token)
    /\ \A t \in revokedOk :
           now < t.exp * TicksPerSecond => \E e \in blacklist : e.key = t

\* C5: an access token validated in the step right after it was issued, not
\* revoked and with the store reachable, is accepted, and the user loaded
\* from its subject is the user it was issued to, its subject being str(u).
C5_RoundTrip ==
    [][(/\ res.op \in IssueOps
        /\ res.status = 200
        /\ res'.op \in {"security.get_current_user", "AuthService.get_current_user"}
        /\ res'.token = res.access
        /\ redisUp
        /\ ~KeyExists(res.access))
       => (/\ res'.status = 200
           /\ res'.user = res.user
           /\ res'.token.sub = IdStrings[res.user])]_vars

\* an access token issued within the current second was accepted
C5_Witness ==
    /\ res.op = "AuthService.get_current_user"
    /\ res.status = 200
    /\ res.token.typ = NoType
    /\ res.token.exp = NowSeconds + AccessLife
    /\ res.user = 2

-----------------------------------------------------------------------------
(* Claims about the RBAC decision engine                                   *)

CheckOps == {"check_permission", "require_privileges", "check_permissions"}

\* the role/privilege pairs reachable from user u through the association
\* tables, whatever the flags of the rows
GrantsOf(u) ==
    {g \in RoleIds \X PrivIds : <<u, g[1]>> \in user_roles /\ g \in role_privileges}

LiveRole(r) == ~roles[r].is_deleted /\ roles[r].is_active

\* C6: a user with is_superuser = true is granted every required privilege,
\* well-formed or not, whatever roles and privileges the user holds.
C6_SuperuserAlwaysGranted ==
    (res.op \in CheckOps /\ users[res.user].is_superuser) => res.granted

\* a superuser without any role passed a check for a name that is not
\* entity:action
C6_Witness ==
    /\ res.op = "require_privileges"
    /\ res.required = <<<<"nonsense">>>>
    /\ users[res.user].is_superuser
    /\ ~users[res.user].is_active
    /\ \A r \in RoleIds : <<res.user, r>> \notin user_roles
    /\ res.status = 200

\* C7: a user with is_active = false or is_deleted = true is denied every
\* required privilege, whatever roles and privileges are assigned (a check
\* that requires nothing aside).
C7_InactiveOrDeletedDenied ==
    (/\ res.op \in CheckOps
     /\ res.op # "check_permission" => res.required # <<>>
     /\ ~users[res.user].is_active \/ users[res.user].is_deleted)
    => ~res.granted

\* the case of C8: the user's one grant is a privilege named E:* on one of
\* the user's roles, and no role of the user carries the blanket flag
OnlyGrantIsEntityWildcard(u, E) ==
    /\ E # "*"
    /\ Cardinality(GrantsOf(u)) = 1
    /\ \A g \in GrantsOf(u) : privileges[g[2]].name = <<E, "*">>
    /\ \A r \in RoleIds : <<u, r>> \in user_roles => ~roles[r].is_admin

Entities == {"sample", "invoice"}

HoldsGlobalWildcard(u) ==
    \E g \in GrantsOf(u) :
        /\ ~privileges[g[2]].is_deleted
        /\ privileges[g[2]].name \in {<<"*">>, <<"*", "*">>}

Matches(p, g) ==
    \/ g = p
    \/ Len(g) >= 2 /\ g[Len(g)] = "*" /\ Head(g) = Head(p)
    \/ g \in {<<"*">>, <<"*", "*">>}

-----------------------------------------------------------------------------
(* Claims about refresh                                                    *)

OtherwiseValidRefresh(t) ==
    /\ redisUp /\ ~KeyExists(t)
    /\ JwtDecodes(t)
    /\ t.typ = "refresh"
    /\ t.sub # NoSub

\* C13: a refresh of an otherwise valid refresh token fails with 401 and
\* issues no tokens when the subject user is missing or inactive; otherwise
\* it returns, and issues, an access token and a refresh token made at the
\* current time for that user.
C13_RefreshLoadsUser ==
    [][(res'.op = "AuthService.refresh_token" /\ OtherwiseValidRefresh(res'.token))
       => IF \/ \A u \in UserIds : ~users[u].present \/ IdStrings[u] # res'.token.sub
             \/ \E u \in UserIds : /\ users[u].present /\ IdStrings[u] = res'.token.sub
                                   /\ ~users[u].is_active
          THEN /\ res'.status = 401
               /\ res'.access = NoToken /\ res'.refresh = NoToken
               /\ issued' = issued
          ELSE /\ res'.status = 200
               /\ res'.access = [sub |-> res'.token.sub, exp |-> NowSeconds + AccessLife,
                                 typ |-> NoType, sig |-> TRUE]
               /\ res'.refresh = [sub |-> res'.token.sub, exp |-> NowSeconds + RefreshLife,
                                  typ |-> "refresh", sig |-> TRUE]
               /\ issued' = issued \cup {res'.access, res'.refresh}]_vars

\* a refresh in a later second than the login: the pair returned is new
C13_Witness ==
    /\ res.op = "AuthService.refresh_token"
    /\ res.status = 200
    /\ res.refresh # res.token
    /\ res.refresh.sub = res.token.sub
    /\ res.access.exp > res.token.exp - RefreshLife + AccessLife

\* C14: a refresh leaves the Revocation Store as it was, and after a
\* successful refresh of a token the token is not revoked and refreshing it
\* once more succeeds.
C14_RefreshKeepsOldToken ==
    [][(res'.op = "AuthService.refresh_token")
       => /\ blacklist' = blacklist
          /\ res'.status = 200
                => /\ \A e \in blacklist' : e.key # res'.token
                   /\ \A t \in Presentable :
                          t = res'.token => refresh_token(t)'.status = 200]_vars

\* the old refresh token, used once in an earlier second, was exchanged a
\* second time: a pair newer than the one held is returned
C14_Witness ==
    /\ res.op = "AuthService.refresh_token"
    /\ res.status = 200
    /\ res.refresh.exp > res.token.exp
    /\ \E t \in issued : /\ t.typ = "refresh"
                         /\ t.exp > res.token.exp
                         /\ t.exp < res.refresh.exp

-----------------------------------------------------------------------------
(* Claims about the administration of the Credential Store                 *)

\* a grant path for the name q that passes through no deleted row: the user,
\* one of the user's roles and, unless that role carries the blanket flag,
\* a privilege of the role that matches q, none of them marked deleted
LivePath(u, q) ==
    /\ ~users[u].is_deleted
    /\ \E r \in RoleIds :
          /\ <<u, r>> \in user_roles
          /\ ~roles[r].is_deleted
          /\ \/ roles[r].is_admin
             \/ \E p \in PrivIds :
                   /\ <<r, p>> \in role_privileges
                   /\ ~privileges[p].is_deleted
                   /\ Matches(q, privileges[p].name)

\* C11: after any sequence of assignments, removals and deletions, a check
\* for a non-superuser is granted only along a grant path that passes
\* through no soft-deleted role or privilege: check_permission for its name,
\* require_privileges for every name of its list, check_permissions for one
\* name of its list.
C11_NoGrantThroughDeleted ==
    (res.op \in CheckOps /\ ~users[res.user].is_superuser /\ res.granted)
    => /\ res.op = "check_permission" => LivePath(res.user, res.priv)
       /\ res.op = "require_privileges" =>
              \A i \in 1..Len(res.required) : LivePath(res.user, res.required[i])
       /\ res.op = "check_permissions" =>
              \E i \in 1..Len(res.required) : LivePath(res.user, res.required[i])

\* sample:read denied although the user holds a role with a matching
\* privilege: the role has been soft-deleted
C11_Witness ==
    /\ res.op = "check_permission"
    /\ res.priv = <<"sample", "read">>
    /\ ~res.granted
    /\ users[res.user].is_active /\ ~users[res.user].is_deleted
    /\ \E r \in RoleIds, p \in PrivIds :
          /\ <<res.user, r>> \in user_roles
          /\ <<r, p>> \in role_privileges
          /\ roles[r].is_deleted
          /\ ~privileges[p].is_deleted
          /\ Matches(res.priv, privileges[p].name)

-----------------------------------------------------------------------------
(* Claims about revocation and the store's failures                        *)

\* C15: revoke_token never raises to its caller; for a token that does not
\* decode (bad signature, expired) it leaves the Revocation Store as it
\* was, and when the store is unavailable the failed write is swallowed:
\* the call returns and the store is as it was.
C15_RevokeNeverRaises ==
    [][(res'.op = "revoke_token")
       => /\ res'.status = 200 /\ res'.detail = ""
          /\ ~JwtDecodes(res'.token) => blacklist' = blacklist
          /\ ~redisUp => blacklist' = blacklist]_vars

\* a revocation that had an entry to write found the store unavailable, and
\* returned
C15_Witness ==
    /\ res.op = "revoke_token"
    /\ res.status = 200
    /\ ~redisUp
    /\ JwtDecodes(res.token)
    /\ RevokeTtl(res.token) > 0
    /\ \A e \in blacklist : e.key # res.token

\* C16: whenever the Revocation Store is unreachable during a validation or
\* a refresh, the token is rejected with 401, and neither a user is
\* returned nor tokens are issued.
C16_FailClosedUnauthenticated ==
    (res.op \in ValidateOps /\ ~redisUp)
    => /\ res.status = 401
       /\ res.user = 0
       /\ res.access = NoToken /\ res.refresh = NoToken

\* C17: every authentication failure of a validation, the store reachable,
\* has the same outward status 401: bad signature, expired token, revoked
\* token, subject user not found.
C17_OneStatusForAllFailures ==
    (/\ res.op \in {"security.get_current_user", "AuthService.get_current_user"}
     /\ redisUp
     /\ res.status # 200)
    => res.status = 401

-----------------------------------------------------------------------------
(* Claims about the Authorization Gate                                     *)

\* the user holds the privilege p: a superuser, or an active, non-deleted
\* user one of whose active, non-deleted roles carries the blanket flag or
\* holds a non-deleted privilege that matches p
HasPrivilege(u, p) ==
    \/ users[u].is_superuser
    \/ /\ users[u].is_active
       /\ ~users[u].is_deleted
       /\ \E r \in RoleIds :
             /\ <<u, r>> \in user_roles
             /\ LiveRole(r)
             /\ \/ roles[r].is_admin
                \/ \E q \in PrivIds :
                      /\ <<r, q>> \in role_privileges
                      /\ ~privileges[q].is_deleted
                      /\ Matches(p, privileges[q].name)

\* the required privileges the user lacks, in the order required
Lacking(u, required) == SelectSeq(required, LAMBDA p : ~HasPrivilege(u, p))

WellFormed(required) == \A i \in 1..Len(required) : Len(required[i]) = 2

C19_GateReadOnly ==
    [][(res'.op = "authorize")
       => /\ users' = users /\ roles' = roles /\ privileges' = privileges
          /\ user_roles' = user_roles /\ role_privileges' = role_privileges
          /\ blacklist' = blacklist]_vars

\* a request refused as Forbidden while the Revocation Store holds an entry
C19_Witness ==
    /\ res.op = "authorize"
    /\ res.status = 403
    /\ res.missing # <<>>
    /\ blacklist # {}

-----------------------------------------------------------------------------
(* Claims about create_crud_privileges                                     *)

\* C20: after a call of createCrudPrivileges(e), a second call with the same
\* e succeeds, creates no row and returns the same four ids as the first.
C20_SecondCallSameIdentities ==
    (res.op = "create_crud_privileges")
    => /\ create_crud_privileges(privileges, res.entity).status = 200
       /\ create_crud_privileges(privileges, res.entity).table = privileges
       /\ create_crud_privileges(privileges, res.entity).ids = res.ids
       /\ Len(res.ids) = Len(CrudActions)

\* C21: createCrudPrivileges(e) returns exactly four privileges, in the
\* order create, read, update, delete, whether they existed or not.
StatedOrder == <<"create", "read", "update", "delete">>

C21_FourInStatedOrder ==
    (res.op = "create_crud_privileges")
    => /\ Len(res.ids) = Len(StatedOrder)
       /\ \A k \in 1..Len(res.ids) :
             /\ res.ids[k] \in DOMAIN privileges
             /\ privileges[res.ids[k]].action = StatedOrder[k]

\* C22: createCrudPrivileges(e) changes no field and no role association of
\* a privilege that existed before the call, of e or of another entity.
C22_ExistingUntouched ==
    [][ (res'.op = "create_crud_privileges")
        => /\ \A i \in DOMAIN privileges :
                 i \in DOMAIN privileges' /\ privileges'[i] = privileges[i]
           /\ role_privileges' = role_privileges ]_vars

\* a call has succeeded beside a deleted privilege of another entity that a
\* role still holds
C22_Witness ==
    /\ res.op = "create_crud_privileges"
    /\ res.status = 200
    /\ \E i \in DOMAIN privileges :
          /\ privileges[i].entity # res.entity
          /\ privileges[i].is_deleted
          /\ <<1, i>> \in role_privileges
    /\ \E i \in DOMAIN privileges :
          privileges[i].entity = res.entity /\ privileges[i].description = <<>>

\* C23: after createCrudPrivileges(entityName), for each of the four actions
\* a non-deleted privilege named exactly entityName:action, with that entity
\* and that action, is in the store.
C23_NamedAsPassed ==
    (res.op = "create_crud_privileges")
    => \A k \in 1..Len(CrudActions) :
          \E i \in DOMAIN privileges :
             /\ ~privileges[i].is_deleted
             /\ privileges[i].name = <<res.entity, CrudActions[k]>>
             /\ privileges[i].entity = res.entity
             /\ privileges[i].action = CrudActions[k]

\* C30: in every state reached by create, createCrudPrivileges and soft
\* delete, the names are unique over all rows and createCrudPrivileges(e)
\* succeeds and returns four non-deleted privileges.
C30_CrudAlwaysSucceeds ==
    /\ \A i, j \in DOMAIN privileges :
          privileges[i].name = privileges[j].name => i = j
    /\ \A e \in CrudEntities :
          /\ create_crud_privileges(privileges, e).status = 200
          /\ Len(create_crud_privileges(privileges, e).ids) = Len(CrudActions)
          /\ \A k \in 1..Len(create_crud_privileges(privileges, e).ids) :
                ~create_crud_privileges(privileges, e).table[
                    create_crud_privileges(privileges, e).ids[k]].is_deleted

-----------------------------------------------------------------------------
(* Claims about changes of grants                                          *)

\* C24: no stale grants.  When a step takes a user's grant path for a name
\* away (a privilege removed from a role, a role removed from the user, or
\* one of them deleted), every check for that name issued in the state the
\* step leaves is denied: none answers from an earlier result.
C24_NoStaleGrants ==
    [][ \A u \in AdminUsers, q \in RequiredNames :
          (LivePath(u, q) /\ ~LivePath(u, q)')
          => /\ ~check_permission(q, CurrentUser(u))'
             /\ ~require_privileges(u, <<q>>)'.granted
             /\ ~check_permissions(u, <<q>>)'.granted ]_vars

\* a privilege has just been removed from a live role the user holds, and
\* the user is left without any grant for sample:read
C24_Witness ==
    /\ res.op = "remove_privilege_from_role"
    /\ res.status = 200
    /\ \E u \in AdminUsers, r \in RoleIds, p \in PrivIds :
          /\ GetUser(u) /\ users[u].is_active
          /\ <<u, r>> \in user_roles
          /\ LiveRole(r) /\ ~roles[r].is_admin
          /\ ~privileges[p].is_deleted
          /\ <<r, p>> \notin role_privileges
          /\ Matches(<<"sample", "read">>, privileges[p].name)
          /\ ~LivePath(u, <<"sample", "read">>)

-----------------------------------------------------------------------------
(* Claims about bootstrap                                                  *)

\* C25: over any interleaving of bootstrap requests, once a superuser exists
\* every further bootstrap answers 400 "Platform already set up" and creates
\* no user, so there is never a second superuser.
C25_BootstrapOnce ==
    [][ (\E u \in UserIds : users[u].present /\ users[u].is_superuser)
        => /\ (res'.op = "bootstrap")
                 => res'.status = 400 /\ res'.detail = "Platform already set up"
           /\ \A u \in UserIds : users'[u].present => users[u].present
           /\ Cardinality({u \in UserIds : users'[u].present /\ users'[u].is_superuser}) <= 1
      ]_vars

-----------------------------------------------------------------------------
(* Claims about the type of a token                                        *)

\* C26: a token whose type is "refresh" is never accepted as an access
\* token: core.security.get_current_user and AuthService.get_current_user
\* both reject it with 401.
C26_RefreshNeverAuthenticates ==
    (res.op \in {"security.get_current_user", "AuthService.get_current_user"}
     /\ res.token.typ = "refresh")
    => res.status = 401

-----------------------------------------------------------------------------
(* Claims about the blanket-access role                                    *)

\* the user holds a role that is active and not deleted and carries the
\* blanket-access flag
HoldsLiveBlanketRole(u) ==
    \E r \in RoleIds : <<u, r>> \in user_roles /\ LiveRole(r) /\ roles[r].is_admin

\* one of the user's active, non-deleted roles holds a non-deleted privilege
\* that matches p
HoldsMatchingPrivilege(u, p) ==
    \E r \in RoleIds, q \in PrivIds :
       /\ <<u, r>> \in user_roles /\ LiveRole(r)
       /\ <<r, q>> \in role_privileges /\ ~privileges[q].is_deleted
       /\ Matches(p, privileges[q].name)

-----------------------------------------------------------------------------
(* Claims about termination                                                *)

\* C28: revoke_token, and logout which calls it twice, always return to
\* their caller, however slow or silent the Revocation Store is.
C28_RevokeTerminates ==
    \A c \in CallIds : (calls[c].pc # "idle") ~> (calls[c].pc = "idle")

-----------------------------------------------------------------------------
(* Claims about concurrent calls of create_crud_privileges                 *)

\* C29: under any interleaving of two createCrudPrivileges(e) calls, no call
\* fails and the store holds no two privileges of one name.
C29_ConcurrentCallsSucceed ==
    /\ (res.op = "create_crud_privileges") => res.status = 200
    /\ \A i, j \in DOMAIN privileges :
          privileges[i].name = privileges[j].name => i = j
    /\ (res.op = "create_crud_privileges" /\ res.status = 200)
          => \A k \in 1..Len(CrudActions) :
                \E i \in DOMAIN privileges :
                   privileges[i].name = <<Lower(res.entity), CrudActions[k]>>

====
